---- MODULE Spec2Model ----
(***************************************************************************)
(* Model of api/index.js: a one-route Express server that maps an inbound  *)
(* prospect record to a NetSuite customer payload, signs a POST with       *)
(* OAuth 1.0a and answers the caller.                                      *)
(*                                                                         *)
(* Strings are sequences of tokens: caller- and environment-supplied text  *)
(* is one character per token, literals of the source are one token each.  *)
(***************************************************************************)
EXTENDS Integers, Sequences, FiniteSets, TLC

\* Number of inbound requests the server handles concurrently.
NumRequests == 2

Reqs == 1..NumRequests

VARIABLES
  main,        \* position of the module's top-level code
  env,         \* process.env, the five NETSUITE_* entries
  exitCode,    \* <<>> while the process runs, <<code>> after process.exit
  cred,        \* the module constants NETSUITE_* (lines 25-29)
  BASE_URL,    \* the module constant BASE_URL (line 44)
  pc,          \* per request: position of the route handler
  body,        \* per request: req.body as the JSON middleware left it
  sent,        \* per request: the POSTs handed to axios, in order
  authHeader,  \* per request: what oauth.toHeader returned (before line 106)
  call,        \* per request: <<>> or <<outcome of the axios call>>
  result,      \* per request: <<>> or <<value createProspect returned>>
  raised,      \* per request: createProspect's promise rejected
  resp         \* per request: the responses written to the caller, in order

vars == <<main, env, exitCode, cred, BASE_URL, pc, body, sent, authHeader,
          call, result, raised, resp>>

Range(s) == {s[i] : i \in DOMAIN s}

----------------------------------------------------------------------------
(* JavaScript values, as far as JSON.parse can produce them.               *)
(*   k: the kind; s: the characters of a string, the digits of a number;   *)
(*   e: the elements of an array (strings), the own keys of an object.     *)

Undefined == [k |-> "undefined", s |-> <<>>, e |-> <<>>]
Null      == [k |-> "null", s |-> <<>>, e |-> <<>>]
Str(cs)   == [k |-> "string", s |-> cs, e |-> <<>>]
Num(ds)   == [k |-> "number", s |-> ds, e |-> <<>>]
Arr(es)   == [k |-> "array", s |-> <<>>, e |-> es]
Obj(keys) == [k |-> "object", s |-> <<>>, e |-> keys]

EmptyString == Str(<<>>)

\* typeof v
TypeOf(v) ==
  CASE v.k = "undefined" -> "undefined"
    [] v.k = "string"    -> "string"
    [] v.k = "number"    -> "number"
    [] OTHER             -> "object"      \* null, arrays and objects

\* ToBoolean(v), as `!v` and `v || x` use it
Truthy(v) ==
  CASE v.k = "undefined" -> FALSE
    [] v.k = "null"      -> FALSE
    [] v.k = "string"    -> v.s # <<>>
    [] v.k = "number"    -> v.s # <<"0">>
    [] OTHER             -> TRUE

\* v?.[0]
IndexZero(v) ==
  CASE v.k = "array"  -> IF v.e = <<>> THEN Undefined ELSE Str(v.e[1])
    [] v.k = "string" -> IF v.s = <<>> THEN Undefined ELSE Str(<<v.s[1]>>)
    [] OTHER          -> Undefined

\* v || ""    (faulty variant: the default is dropped)
OrEmptyDropped(v) == v

OrEmpty(v) == IF Truthy(v) THEN v ELSE EmptyString

RECURSIVE Join(_)
Join(es) ==
  IF es = <<>> THEN <<>>
  ELSE IF Len(es) = 1 THEN es[1]
  ELSE es[1] \o <<",">> \o Join(Tail(es))

\* `${v}` throws a TypeError when v is an object whose own "toString" key
\* (never callable in parsed JSON) hides Object.prototype.toString
Interpolable(v) == ~(v.k = "object" /\ <<"toString">> \in Range(v.e))

\* `${v}` for an interpolable v
ToStr(v) ==
  CASE v.k = "undefined" -> <<"undefined">>
    [] v.k = "null"      -> <<"null">>
    [] v.k = "string"    -> v.s
    [] v.k = "number"    -> v.s
    [] v.k = "array"     -> Join(v.e)
    [] OTHER             -> <<"[object Object]">>

----------------------------------------------------------------------------
(* Startup: lines 25-54 and 158-161.                                       *)

EnvNames == {"NETSUITE_ACCOUNT_ID", "NETSUITE_CONSUMER_KEY",
             "NETSUITE_CONSUMER_SECRET", "NETSUITE_TOKEN_ID",
             "NETSUITE_TOKEN_SECRET"}

AccountIds == { <<"9", "9">>, <<"T", "_", "S", "_", "1">> }

EnvValues(n) ==
  {Undefined, EmptyString} \cup
  (IF n = "NETSUITE_ACCOUNT_ID" THEN {Str(a) : a \in AccountIds}
   ELSE {Str(<<"k">>)})

Environments ==
  { [n \in EnvNames |->
       CASE n = "NETSUITE_ACCOUNT_ID"      -> a
         [] n = "NETSUITE_CONSUMER_KEY"    -> ck
         [] n = "NETSUITE_CONSUMER_SECRET" -> cs
         [] n = "NETSUITE_TOKEN_ID"        -> ti
         [] OTHER                          -> ts] :
      a \in EnvValues("NETSUITE_ACCOUNT_ID"),
      ck \in EnvValues("NETSUITE_CONSUMER_KEY"),
      cs \in EnvValues("NETSUITE_CONSUMER_SECRET"),
      ti \in EnvValues("NETSUITE_TOKEN_ID"),
      ts \in EnvValues("NETSUITE_TOKEN_SECRET") }

Unset == [n \in EnvNames |-> Undefined]

\* the condition of the `if` at lines 32-38
\* (faulty variant: the token secret is not checked)
MissingEnvNoTokenSecret(c) ==
  \/ ~Truthy(c["NETSUITE_ACCOUNT_ID"])
  \/ ~Truthy(c["NETSUITE_CONSUMER_KEY"])
  \/ ~Truthy(c["NETSUITE_CONSUMER_SECRET"])
  \/ ~Truthy(c["NETSUITE_TOKEN_ID"])

MissingEnv(c) ==
  \/ ~Truthy(c["NETSUITE_ACCOUNT_ID"])
  \/ ~Truthy(c["NETSUITE_CONSUMER_KEY"])
  \/ ~Truthy(c["NETSUITE_CONSUMER_SECRET"])
  \/ ~Truthy(c["NETSUITE_TOKEN_ID"])
  \/ ~Truthy(c["NETSUITE_TOKEN_SECRET"])

\* String.prototype.toLowerCase, on the characters the account ids use
LowerChar(ch) ==
  CASE ch = "T" -> "t"
    [] ch = "S" -> "s"
    [] OTHER    -> ch

ToLowerCase(cs) == [i \in DOMAIN cs |-> LowerChar(cs[i])]

\* String.prototype.replace("_", "-"): the first occurrence only
RECURSIVE ReplaceFirstUnderscore(_)
ReplaceFirstUnderscore(cs) ==
  IF cs = <<>> THEN <<>>
  ELSE IF Head(cs) = "_" THEN <<"-">> \o Tail(cs)
  ELSE <<Head(cs)>> \o ReplaceFirstUnderscore(Tail(cs))

AccountHost(acct) == ReplaceFirstUnderscore(ToLowerCase(acct))

\* the template literal at line 44
BaseUrl(acct) ==
  <<"https://">> \o AccountHost(acct)
    \o <<".suitetalk.api.netsuite.com/services/rest/record/v1/customer">>

----------------------------------------------------------------------------
(* createProspect: lines 57-123.                                           *)

FieldNames == {"COMPANY_NAME", "LAST_NAME", "FIRST_NAME", "JOB_TITLE",
               "BUSINESS_EMAIL", "PERSONAL_EMAILS", "MOBILE_PHONE",
               "COMPANY_PHONE", "UUID", "RELEVANCE_SCORE",
               "COMPLETENESS_SCORE", "COMPANY_SUMMARY",
               "RELEVANCE_DESCRIPTION", "COMPANY_ADDRESS", "COMPANY_CITY",
               "COMPANY_STATE", "COMPANY_ZIP"}

\* the fields the template literals at lines 61, 72-75 and 85 interpolate
InterpolatedFields == {"COMPANY_NAME", "LAST_NAME", "FIRST_NAME", "UUID",
                       "RELEVANCE_SCORE", "COMPLETENESS_SCORE",
                       "COMPANY_SUMMARY", "RELEVANCE_DESCRIPTION"}

\* building prospectData completes (no template literal throws)
Mappable(c) == \A n \in InterpolatedFields : Interpolable(c[n])

\* the object literal at lines 58-96
prospectData(c) ==
  [ companyName  |-> c["COMPANY_NAME"],
    isPerson     |-> TRUE,
    entityId     |-> ToStr(c["COMPANY_NAME"]) \o <<" - ">> \o ToStr(c["LAST_NAME"]),
    subsidiary   |-> [id |-> "17"],
    firstName    |-> c["FIRST_NAME"],
    lastName     |-> c["LAST_NAME"],
    title        |-> c["JOB_TITLE"],
    email        |-> OrEmpty(IndexZero(c["BUSINESS_EMAIL"])),
    altEmail     |-> OrEmpty(IndexZero(c["PERSONAL_EMAILS"])),
    mobilePhone  |-> OrEmpty(IndexZero(c["MOBILE_PHONE"])),
    phone        |-> OrEmpty(c["COMPANY_PHONE"]),
    entityStatus |-> [id |-> "8"],
    comments     |->
      <<"\n      Source UUID: ">> \o ToStr(c["UUID"])
        \o <<"\n      Relevance Score: ">> \o ToStr(c["RELEVANCE_SCORE"])
        \o <<" (Completeness: ">> \o ToStr(c["COMPLETENESS_SCORE"])
        \o <<")\n      COMPANY SUMMARY: ">> \o ToStr(c["COMPANY_SUMMARY"])
        \o <<"\n      RELEVANCE DESCRIPTION: ">>
        \o ToStr(c["RELEVANCE_DESCRIPTION"])
        \o <<"\n    ">>,
    addressbook  |->
      [items |-> <<
        [ defaultShipping    |-> TRUE,
          defaultBilling     |-> TRUE,
          label              |-> "Company HQ",
          addressBookAddress |->
            [ addressee |-> c["COMPANY_NAME"],
              attention |-> ToStr(c["FIRST_NAME"]) \o <<" ">>
                              \o ToStr(c["LAST_NAME"]),
              addr1     |-> c["COMPANY_ADDRESS"],
              city      |-> c["COMPANY_CITY"],
              state     |-> c["COMPANY_STATE"],
              zip       |-> c["COMPANY_ZIP"],
              addrPhone |-> c["COMPANY_PHONE"],
              country   |-> [id |-> "US"] ] ] >>] ]

\* the address entry of a payload
Address(p) == p.addressbook.items[1].addressBookAddress

\* nonce and timestamp oauth.authorize draws for one call
Nonces == {"n1", "n2"}

\* oauth.toHeader(oauth.authorize({url, method: "POST"}, token)).Authorization
\* (lines 48-54 and 100-105); the HMAC is kept as the list of what it signs
OAuthHeader(url, c, nonce) ==
  <<"OAuth oauth_consumer_key=\"">> \o c["NETSUITE_CONSUMER_KEY"].s
    \o <<"\", oauth_nonce=\"", nonce, "\", oauth_signature=\"", "hmac(", "POST", "&">>
    \o url \o <<"&", nonce, "&">> \o c["NETSUITE_CONSUMER_SECRET"].s
    \o <<"&">> \o c["NETSUITE_TOKEN_SECRET"].s
    \o <<")", "\", oauth_signature_method=\"HMAC-SHA256\", oauth_timestamp=\"",
         nonce, "\", oauth_token=\"">> \o c["NETSUITE_TOKEN_ID"].s
    \o <<"\", oauth_version=\"1.0\"">>

\* the account identifier interpolated at line 106
\* (faulty variant: the host form of line 44 is used)
RealmValueHostForm(acct) == AccountHost(acct)

RealmValue(acct) == acct

\* line 106: authHeader.Authorization += `, realm="${NETSUITE_ACCOUNT_ID}"`
WithRealm(header, acct) ==
  header \o <<", realm=\"">> \o RealmValue(acct) \o <<"\"">>

\* the arguments of axios.post at lines 109-115
PostRequest(url, data, authorization) ==
  [ method  |-> "POST",
    url     |-> url,
    data    |-> data,
    headers |-> [ Authorization |-> authorization,
                  ContentType   |-> "application/json",
                  Prefer        |-> "return=representation" ] ]

\* how an axios call can end: a 2xx response with its body, a non-2xx
\* response (error.response.data, possibly empty) or no response at all
Outcomes ==
  { [kind |-> "2xx", data |-> <<"{\"id\":\"1\"}">>, message |-> <<>>],
    [kind |-> "non2xx", data |-> <<"{\"o:errorDetails\":[]}">>,
     message |-> <<"Request failed with status code 400">>],
    [kind |-> "non2xx", data |-> <<>>,
     message |-> <<"Request failed with status code 502">>],
    [kind |-> "transport", data |-> <<>>, message |-> <<"socket hang up">>] }

\* error.response?.data || error.message  (lines 120-121)
ErrorDetail(o) ==
  IF o.kind = "non2xx" /\ o.data # <<>> THEN o.data ELSE o.message

\* what createProspect returns once the call has ended (lines 118, 121)
Outcome(o) ==
  IF o.kind = "2xx"
  THEN [success |-> TRUE, key |-> "data", val |-> o.data]
  ELSE [success |-> FALSE, key |-> "error", val |-> ErrorDetail(o)]

----------------------------------------------------------------------------
(* Request bodies: req.body after express.json() (line 22).  The route    *)
(* is given an object, an array or nothing; a JSON string is included too  *)
(* (the parser passes primitives on only when it is not strict, so this    *)
(* widens what the route is checked against).  f holds the named fields:   *)
(* an absent field reads as undefined, as does any name on an array or a   *)
(* string.                                                                 *)

NoFields == [n \in FieldNames |-> Undefined]

NotReceived == [k |-> "none", s |-> <<>>, f |-> NoFields]
NoBody      == [k |-> "undefined", s |-> <<>>, f |-> NoFields]
StringBody  == [k |-> "string", s |-> <<"h", "i">>, f |-> NoFields]
ArrayBody   == [k |-> "array", s |-> <<>>, f |-> NoFields]
ObjectBody(fields) == [k |-> "object", s |-> <<>>, f |-> fields]

FullFields ==
  [n \in FieldNames |->
     CASE n = "COMPANY_NAME"    -> Str(<<"A", "c">>)
       [] n = "LAST_NAME"       -> Str(<<"S", "m">>)
       [] n = "FIRST_NAME"      -> Str(<<"J">>)
       [] n = "BUSINESS_EMAIL"  -> Arr(<< <<"a", "@", "b">>, <<"c", "@", "d">> >>)
       [] n = "PERSONAL_EMAILS" -> Arr(<< <<"p", "@", "q">> >>)
       [] n = "MOBILE_PHONE"    -> Arr(<< <<"5", "5">> >>)
       [] n = "RELEVANCE_SCORE" -> Num(<<"8">>)
       [] n = "COMPLETENESS_SCORE" -> Num(<<"0">>)
       [] OTHER                 -> Str(<<"x">>)]

\* a record whose UUID is {"toString": null}
UnprintableFields == [FullFields EXCEPT !["UUID"] = Obj(<< <<"toString">> >>)]

\* the bodies of the concurrent specification
Bodies == {NoBody, StringBody, ArrayBody, ObjectBody(NoFields),
           ObjectBody(FullFields), ObjectBody(UnprintableFields)}

\* the bodies of the liveness specification
FewBodies == {NoBody, ObjectBody(FullFields), ObjectBody(UnprintableFields)}

\* the values tried for each optional field of the mapping specification
OptionalValues(n) ==
  CASE n = "BUSINESS_EMAIL" ->
         {Undefined, Null, Arr(<<>>), FullFields[n], Str(<<"z", "@">>)}
    [] n \in {"PERSONAL_EMAILS", "MOBILE_PHONE"} ->
         {Undefined, Arr(<<>>), FullFields[n]}
    [] n \in {"COMPANY_PHONE", "COMPANY_ADDRESS"} ->
         {Undefined, Null, FullFields[n]}
    [] n \in {"COMPANY_CITY", "COMPANY_STATE", "COMPANY_ZIP"} ->
         {Undefined, FullFields[n]}
    [] OTHER -> {FullFields[n]}

OptionalFields == {"BUSINESS_EMAIL", "PERSONAL_EMAILS", "MOBILE_PHONE",
                   "COMPANY_PHONE", "COMPANY_ADDRESS", "COMPANY_CITY",
                   "COMPANY_STATE", "COMPANY_ZIP"}

\* the other fields: all present, all absent, or an unprintable UUID
Overlay(base, opt) ==
  [n \in FieldNames |-> IF n \in OptionalFields THEN opt[n] ELSE base[n]]

OptionalChoices ==
  { [n \in OptionalFields |->
       CASE n = "BUSINESS_EMAIL"  -> be
         [] n = "PERSONAL_EMAILS" -> pe
         [] n = "MOBILE_PHONE"    -> mp
         [] n = "COMPANY_PHONE"   -> cp
         [] n = "COMPANY_ADDRESS" -> ca
         [] n = "COMPANY_CITY"    -> cc
         [] n = "COMPANY_STATE"   -> cs
         [] OTHER                 -> cz] :
      be \in OptionalValues("BUSINESS_EMAIL"),
      pe \in OptionalValues("PERSONAL_EMAILS"),
      mp \in OptionalValues("MOBILE_PHONE"),
      cp \in OptionalValues("COMPANY_PHONE"),
      ca \in OptionalValues("COMPANY_ADDRESS"),
      cc \in OptionalValues("COMPANY_CITY"),
      cs \in OptionalValues("COMPANY_STATE"),
      cz \in OptionalValues("COMPANY_ZIP") }

\* the bodies of the mapping specification
ManyBodies ==
  {NoBody, StringBody, ArrayBody} \cup
  {ObjectBody(Overlay(b, o)) :
     b \in {FullFields, NoFields, UnprintableFields}, o \in OptionalChoices}

\* the condition of the `if` at line 140
Rejects(prospect) == ~Truthy(prospect) \/ TypeOf(prospect) # "object"

\* the JSON replies of the route (lines 141, 146-149, 152)
Reply(status, json) == [status |-> status, json |-> json]

InvalidPayload == Reply(400, << <<"error", "Invalid JSON payload">> >>)
InternalError  == Reply(500, << <<"error", "Internal Server Error">> >>)
Success        ==
  Reply(200, << <<"status", "success">>,
                <<"message", "Record created successfully">> >>)

\* the reply after `await create_prospect_netsuite(prospect)` (lines 144-149):
\* the returned value is dropped
\* (faulty variant: a failed submit is reported to the caller)
ReplyFromResult(res) == IF res.success THEN Success ELSE InternalError

ReplyAfterSubmit(res) == Success

\* const prospect = req.body (line 138)
\* (faulty variant: the body is kept in a module-level variable that the latest
\*  request to arrive overwrites; here, the highest-numbered one received)
ProspectShared(r) ==
  body[CHOOSE q \in Reqs : /\ body[q].k # "none"
                          /\ \A o \in Reqs : body[o].k # "none" => o <= q]

Prospect(r) == body[r]

----------------------------------------------------------------------------
(* The state machine.                                                      *)

Init ==
  /\ main = "boot"
  /\ env \in Environments
  /\ exitCode = <<>>
  /\ cred = Unset
  /\ BASE_URL = <<>>
  /\ pc = [r \in Reqs |-> "idle"]
  /\ body = [r \in Reqs |-> NotReceived]
  /\ sent = [r \in Reqs |-> <<>>]
  /\ authHeader = [r \in Reqs |-> <<>>]
  /\ call = [r \in Reqs |-> <<>>]
  /\ result = [r \in Reqs |-> <<>>]
  /\ raised = [r \in Reqs |-> FALSE]
  /\ resp = [r \in Reqs |-> <<>>]

requestVars == <<pc, body, sent, authHeader, call, result, raised, resp>>

\* lines 25-29: the credentials are read from the environment
LoadCredentials ==
  /\ main = "boot"
  /\ cred' = env
  /\ main' = "loaded"
  /\ UNCHANGED <<env, exitCode, BASE_URL, requestVars>>

\* lines 32-41: process.exit(1) when a credential is missing
ValidateEnv ==
  /\ main = "loaded"
  /\ IF MissingEnv(cred)
     THEN main' = "exited" /\ exitCode' = <<1>>
     ELSE main' = "validated" /\ exitCode' = exitCode
  /\ UNCHANGED <<env, cred, BASE_URL, requestVars>>

\* lines 44-54: the endpoint and the signer are set up
Configure ==
  /\ main = "validated"
  /\ BASE_URL' = BaseUrl(cred["NETSUITE_ACCOUNT_ID"].s)
  /\ main' = "configured"
  /\ UNCHANGED <<env, exitCode, cred, requestVars>>

\* lines 158-161: app.listen
Listen ==
  /\ main = "configured"
  /\ main' = "listening"
  /\ UNCHANGED <<env, exitCode, cred, BASE_URL, requestVars>>

\* a POST /api/create-prospect arrives and its body, one of B, is parsed
\* (lines 21-22)
Receive(r, B) ==
  /\ main = "listening"
  /\ pc[r] = "idle"
  /\ \E b \in B : body' = [body EXCEPT ![r] = b]
  /\ pc' = [pc EXCEPT ![r] = "received"]
  /\ UNCHANGED <<main, env, exitCode, cred, BASE_URL, sent, authHeader, call,
                 result, raised, resp>>

\* (faulty variant of RejectInvalid: the `return` of line 141 is missing, so the
\*  handler goes on to submit; reading a field of undefined throws before
\*  any call, a string body goes out)
RejectInvalidNoReturn(r) ==
  /\ pc[r] = "received"
  /\ Rejects(Prospect(r))
  /\ resp' = [resp EXCEPT ![r] = Append(@, InvalidPayload)]
  /\ IF Prospect(r).k = "undefined"
     THEN /\ pc' = [pc EXCEPT ![r] = "done"]
          /\ raised' = [raised EXCEPT ![r] = TRUE]
          /\ UNCHANGED <<sent, authHeader>>
     ELSE /\ pc' = [pc EXCEPT ![r] = "awaiting"]
          /\ authHeader' = [authHeader EXCEPT ![r] = OAuthHeader(BASE_URL, cred, "n1")]
          /\ sent' = [sent EXCEPT ![r] = Append(@,
               PostRequest(BASE_URL, prospectData(Prospect(r).f),
                 WithRealm(OAuthHeader(BASE_URL, cred, "n1"),
                           cred["NETSUITE_ACCOUNT_ID"].s)))]
          /\ UNCHANGED raised
  /\ UNCHANGED <<main, env, exitCode, cred, BASE_URL, body, call, result>>

\* lines 138-142: the body is missing or not an object
RejectInvalid(r) ==
  /\ pc[r] = "received"
  /\ Rejects(Prospect(r))
  /\ resp' = [resp EXCEPT ![r] = Append(@, InvalidPayload)]
  /\ pc' = [pc EXCEPT ![r] = "done"]
  /\ UNCHANGED <<main, env, exitCode, cred, BASE_URL, body, sent, authHeader,
                 call, result, raised>>

\* lines 144, 126-129, 58-96, 150-153: a template literal of createProspect
\* throws while the payload is built; the awaited promise rejects and the
\* route's catch answers 500
SubmitThrows(r) ==
  /\ pc[r] = "received"
  /\ ~Rejects(Prospect(r))
  /\ ~Mappable(Prospect(r).f)
  /\ raised' = [raised EXCEPT ![r] = TRUE]
  /\ resp' = [resp EXCEPT ![r] = Append(@, InternalError)]
  /\ pc' = [pc EXCEPT ![r] = "done"]
  /\ UNCHANGED <<main, env, exitCode, cred, BASE_URL, body, sent, authHeader,
                 call, result>>

\* (faulty variant of SubmitIssue: the `await` of line 144 is missing, so the route
\*  answers while the call is in flight)
SubmitIssueNoAwait(r, nonce) ==
  /\ pc[r] = "received"
  /\ ~Rejects(Prospect(r))
  /\ Mappable(Prospect(r).f)
  /\ authHeader' = [authHeader EXCEPT ![r] = OAuthHeader(BASE_URL, cred, nonce)]
  /\ sent' = [sent EXCEPT ![r] = Append(@,
       PostRequest(BASE_URL, prospectData(Prospect(r).f),
         WithRealm(OAuthHeader(BASE_URL, cred, nonce),
                   cred["NETSUITE_ACCOUNT_ID"].s)))]
  /\ resp' = [resp EXCEPT ![r] = Append(@, Success)]
  /\ pc' = [pc EXCEPT ![r] = "awaiting"]
  /\ UNCHANGED <<main, env, exitCode, cred, BASE_URL, body, call, result, raised>>

\* lines 144, 126-129, 58-115: the payload is built, the request is signed
\* and handed to axios; the handler suspends on the call
SubmitIssue(r, nonce) ==
  /\ pc[r] = "received"
  /\ ~Rejects(Prospect(r))
  /\ Mappable(Prospect(r).f)
  /\ authHeader' = [authHeader EXCEPT ![r] = OAuthHeader(BASE_URL, cred, nonce)]
  /\ sent' = [sent EXCEPT ![r] = Append(@,
       PostRequest(BASE_URL, prospectData(Prospect(r).f),
         WithRealm(OAuthHeader(BASE_URL, cred, nonce),
                   cred["NETSUITE_ACCOUNT_ID"].s)))]
  /\ pc' = [pc EXCEPT ![r] = "awaiting"]
  /\ UNCHANGED <<main, env, exitCode, cred, BASE_URL, body, call, result,
                 raised, resp>>

\* the remote system answers, or the transport gives up
AxiosSettle(r, o) ==
  /\ pc[r] = "awaiting"
  /\ call' = [call EXCEPT ![r] = <<o>>]
  /\ pc' = [pc EXCEPT ![r] = "settled"]
  /\ UNCHANGED <<main, env, exitCode, cred, BASE_URL, body, sent, authHeader,
                 result, raised, resp>>

\* lines 116-122, 128, 146-149: createProspect returns its outcome and the
\* route answers
Resume(r) ==
  /\ pc[r] = "settled"
  /\ result' = [result EXCEPT ![r] = <<Outcome(call[r][1])>>]
  /\ resp' = [resp EXCEPT ![r] = Append(@, ReplyAfterSubmit(Outcome(call[r][1])))]
  /\ pc' = [pc EXCEPT ![r] = "done"]
  /\ UNCHANGED <<main, env, exitCode, cred, BASE_URL, body, sent, authHeader,
                 call, raised>>

Startup == LoadCredentials \/ ValidateEnv \/ Configure \/ Listen

\* the requests R, with bodies from B, nonces from N and call outcomes from O
Serve(R, B, N, O) ==
  \E r \in R :
    \/ Receive(r, B)
    \/ RejectInvalid(r)
    \/ SubmitThrows(r)
    \/ \E n \in N : SubmitIssue(r, n)
    \/ \E o \in O : AxiosSettle(r, o)
    \/ Resume(r)

\* the outcomes that carry something to report
PlainOutcomes == {o \in Outcomes : o.kind = "2xx" \/ o.data # <<>> \/ o.kind = "transport"}

Next == Startup \/ Serve(Reqs, Bodies, Nonces, PlainOutcomes)

Spec == Init /\ [][Next]_vars

\* one request at a time, over every combination of optional fields
MapNext == Startup \/ Serve({1}, ManyBodies, {"n1"}, Outcomes)

MapSpec == Init /\ [][MapNext]_vars

\* the event loop runs every continuation that is ready
LiveNext == Startup \/ Serve(Reqs, FewBodies, {"n1"}, PlainOutcomes)

LiveSpec ==
  /\ Init
  /\ [][LiveNext]_vars
  /\ \A r \in Reqs : WF_vars(Resume(r))

----------------------------------------------------------------------------
(* Properties.                                                             *)

Configured(n) == Truthy(env[n])

Answered(r) == pc[r] = "done"

\* the request reached createProspect (it passed the check of line 140)
Submitted(r) == body[r].k # "none" /\ ~Rejects(body[r]) /\ pc[r] # "received"

\* C1: every request whose parsed body is not a JSON object (no body, an
\* array, a string) is answered 400 {error: "Invalid JSON payload"}, never 200.
C1_NonObjectBodyIs400 ==
  \A r \in Reqs :
    (Answered(r) /\ body[r].k \in {"undefined", "string", "array"})
      => resp[r] = <<InvalidPayload>>

\* C2: a request with an object body whose outbound call ended, in success
\* or in failure (non-2xx or transport error), is answered 200
\* {status: "success", message: "Record created successfully"}: the reply is
\* the same whether the remote call succeeded or failed.
C2_RemoteFailureStill200 ==
  \A r \in Reqs :
    (Answered(r) /\ body[r].k = "object" /\ call[r] # <<>>)
      => resp[r] = <<Success>>

C2_Witness ==
  \E r \in Reqs :
    /\ Answered(r) /\ body[r].k = "object" /\ call[r] # <<>>
    /\ call[r][1].kind # "2xx"
    /\ result[r] # <<>> /\ ~result[r][1].success
    /\ resp[r] = <<Success>>

\* C3, as stated: in every payload createProspect builds for a record, each of email,
\* altEmail, mobilePhone, phone, addr1, city, state, zip, addrPhone whose
\* inbound field is absent is the empty string.
C3_AbsentOptionalIsEmptyString ==
  \A r \in Reqs :
    (body[r].k = "object" /\ sent[r] # <<>>) =>
      LET c == body[r].f
          p == sent[r][1].data
          absent(n) == c[n] = Undefined
      IN /\ absent("BUSINESS_EMAIL")  => p.email = EmptyString
         /\ absent("PERSONAL_EMAILS") => p.altEmail = EmptyString
         /\ absent("MOBILE_PHONE")    => p.mobilePhone = EmptyString
         /\ absent("COMPANY_PHONE")   => p.phone = EmptyString
         /\ absent("COMPANY_ADDRESS") => Address(p).addr1 = EmptyString
         /\ absent("COMPANY_CITY")    => Address(p).city = EmptyString
         /\ absent("COMPANY_STATE")   => Address(p).state = EmptyString
         /\ absent("COMPANY_ZIP")     => Address(p).zip = EmptyString
         /\ absent("COMPANY_PHONE")   => Address(p).addrPhone = EmptyString

\* C3, amended: in every payload createProspect builds, email, altEmail,
\* mobilePhone and phone are the empty string when their inbound field is
\* absent, while addr1, city, state, zip and addrPhone are then undefined
\* (so dropped from the JSON body), never null; and createProspect fails
\* only on a field it interpolates, never because an optional field is absent.
C3_AbsentOptionalMapping ==
  \A r \in Reqs :
    LET c == body[r].f
        absent(n) == c[n] = Undefined
    IN /\ sent[r] # <<>> =>
            LET p == sent[r][1].data
            IN /\ absent("BUSINESS_EMAIL")  => p.email = EmptyString
               /\ absent("PERSONAL_EMAILS") => p.altEmail = EmptyString
               /\ absent("MOBILE_PHONE")    => p.mobilePhone = EmptyString
               /\ absent("COMPANY_PHONE")   => p.phone = EmptyString
               /\ absent("COMPANY_ADDRESS") => Address(p).addr1 = Undefined
               /\ absent("COMPANY_CITY")    => Address(p).city = Undefined
               /\ absent("COMPANY_STATE")   => Address(p).state = Undefined
               /\ absent("COMPANY_ZIP")     => Address(p).zip = Undefined
               /\ absent("COMPANY_PHONE")   => Address(p).addrPhone = Undefined
       /\ raised[r] =>
            \E n \in FieldNames \ OptionalFields : ~Interpolable(c[n])
       /\ (Submitted(r) /\ \A n \in FieldNames \ OptionalFields : Interpolable(c[n]))
            => (~raised[r] /\ sent[r] # <<>>)

C3_Witness ==
  \E r \in Reqs :
    /\ body[r].k = "object"
    /\ \A n \in OptionalFields : body[r].f[n] = Undefined
    /\ body[r].f["COMPANY_NAME"] # Undefined
    /\ sent[r] # <<>>
    /\ sent[r][1].data.email = EmptyString
    /\ Address(sent[r][1].data).addr1 = Undefined

\* C4: if any of the five credentials is missing or empty the process exits
\* with a non-zero status and never binds the listener; whenever the
\* listener is bound (or a request is being served) all five are non-empty.
C4_NoListenerWithoutCredentials ==
  /\ (main = "listening" \/ \E r \in Reqs : pc[r] # "idle")
       => \A n \in EnvNames : Configured(n) /\ Truthy(cred[n])
  /\ (\E n \in EnvNames : ~Configured(n))
       => /\ main \in {"boot", "loaded", "exited"}
          /\ \A r \in Reqs : pc[r] = "idle"
  /\ main = "exited"
       => /\ exitCode # <<>> /\ exitCode[1] # 0
          /\ \E n \in EnvNames : ~Configured(n)
  /\ main # "exited" => exitCode = <<>>

C4_Witness ==
  /\ main = "exited"
  /\ exitCode = <<1>>
  /\ Cardinality({n \in EnvNames : ~Configured(n)}) = 1
  /\ env["NETSUITE_TOKEN_SECRET"] = EmptyString

\* C5: a request rejected by validation (answered 400 because its body is
\* absent or not an object) never has an outbound call issued for it.
C5_RejectedNeverCalls ==
  \A r \in Reqs :
    (InvalidPayload \in Range(resp[r]) \/ (body[r].k # "none" /\ Rejects(body[r])))
      => (sent[r] = <<>> /\ call[r] = <<>> /\ authHeader[r] = <<>>)

C5_Witness ==
  \E r \in Reqs :
    /\ Answered(r) /\ resp[r] = <<InvalidPayload>> /\ sent[r] = <<>>
    /\ \E q \in Reqs : sent[q] # <<>>

\* C6: createProspect never raises to its caller: for every record passed to
\* it and every outcome of the call it returns {success: true, data} or
\* {success: false, error}, error being the remote error payload if there is
\* one and the transport error message otherwise.
C6_SubmitNeverRaises ==
  \A r \in Reqs :
    /\ ~raised[r]
    /\ (Submitted(r) /\ Answered(r)) =>
         /\ call[r] # <<>> /\ result[r] # <<>>
         /\ LET o == call[r][1]
                v == result[r][1]
            IN IF o.kind = "2xx"
               THEN v.success /\ v.key = "data" /\ v.val = o.data
               ELSE /\ ~v.success /\ v.key = "error"
                    /\ v.val = IF o.data # <<>> THEN o.data ELSE o.message

\* C7: the Authorization header of every outbound call is the header the
\* OAuth library generated followed by , realm="<account id>", the account
\* identifier as configured, not the host form used in the URL.
C7_RealmIsAccountId ==
  \A r \in Reqs :
    \A i \in DOMAIN sent[r] :
      /\ authHeader[r] # <<>>
      /\ sent[r][i].headers.Authorization =
           authHeader[r] \o <<", realm=\"">>
             \o env["NETSUITE_ACCOUNT_ID"].s \o <<"\"">>

C7_Witness ==
  \E r \in Reqs :
    /\ sent[r] # <<>>
    /\ AccountHost(env["NETSUITE_ACCOUNT_ID"].s) # env["NETSUITE_ACCOUNT_ID"].s
    /\ sent[r][1].url = <<"https://">> \o <<"t", "-", "s", "_", "1">>
         \o <<".suitetalk.api.netsuite.com/services/rest/record/v1/customer">>

\* C8: every request that passes validation has exactly one outbound POST
\* issued for it, never more (no retry) and, once it is answered, never less.
C8_ExactlyOnePost ==
  \A r \in Reqs :
    /\ Len(sent[r]) <= 1
    /\ (Submitted(r) /\ Answered(r)) => Len(sent[r]) = 1

StatusFor(b) ==
  IF Rejects(b) THEN 400 ELSE IF Mappable(b.f) THEN 200 ELSE 500

\* C10: once read, the credentials and the target URL never change; and
\* under every interleaving each request's outbound payload, target and
\* answer are those its own body and the credentials determine, so two
\* requests with the same body send the same payload and get the same answer.
C10_RequestsIndependent ==
  /\ [][ /\ main # "boot" => cred' = cred
         /\ main \in {"configured", "listening"} => BASE_URL' = BASE_URL ]_vars
  /\ [](\A r \in Reqs :
          /\ sent[r] # <<>> =>
               /\ sent[r][1].data = prospectData(body[r].f)
               /\ sent[r][1].url = BaseUrl(env["NETSUITE_ACCOUNT_ID"].s)
          /\ resp[r] # <<>> => resp[r][1].status = StatusFor(body[r]))
  /\ [](\A r, q \in Reqs :
          body[r] = body[q] =>
            /\ (sent[r] # <<>> /\ sent[q] # <<>>)
                 => sent[r][1].data = sent[q][1].data
            /\ (resp[r] # <<>> /\ resp[q] # <<>>) => resp[r] = resp[q])

C10_Witness ==
  \E r, q \in Reqs :
    /\ r # q
    /\ body[r] # body[q]
    /\ pc[r] = "awaiting" /\ pc[q] = "settled"
    /\ sent[r][1].data # sent[q][1].data

====
